---- MODULE Spec2Model ----
(***************************************************************************)
(* Identity core of the Dudley Life Optimizer platform:                    *)
(*   src/src/security/auth.py      (passwords, MFA, JWT, register, login)  *)
(*   src/src/routes/security.py    (the /api/security route handlers)      *)
(*   src/src/security/data_protection.py (audit records, consent)          *)
(*                                                                         *)
(* Seven specifications share the variables:                               *)
(*   Spec      every route handler is one atomic step (requests handled    *)
(*             one after the other), the clock stands still;               *)
(*   SpecTok   the token service under an advancing clock;                 *)
(*   SpecConc  concurrent login requests, one step per store call;         *)
(*   SpecDel   delete_user_data and export_user_data, one step per store   *)
(*             write, with store calls that may raise;                     *)
(*   SpecSweep overlapping apply_retention_policies runs, one step per     *)
(*             store call, with store calls that may raise;                *)
(*   SpecConsent record_consent calls in flight and get_user_consents,     *)
(*             under an advancing clock;                                   *)
(*   SpecRate  the login requests of one origin within one minute.         *)
(*                                                                         *)
(* The record store is an external collaborator.  It is modelled as a      *)
(* table keyed by row id whose single calls are atomic, with a unique      *)
(* e-mail column (spec section 3), and whose calls may raise.              *)
(***************************************************************************)
EXTENDS Integers, Sequences, FiniteSets, Bags, TLC

(***************************************************************************)
(* Bounds of the model.                                                    *)
(***************************************************************************)
\* tokens the clients keep at any one time
MaxHeld == 1
\* clock advances in SpecTok
MaxTicks == 2
\* concurrent login requests in SpecConc
MaxRequests == 6
\* rows of the user_consents table
MaxConsents == 1
\* store calls that raise in one behaviour of SpecDel or SpecSweep
MaxFaults == 2
\* delete_user_data calls in one behaviour of SpecDel
MaxDeletes == 2
\* apply_retention_policies runs in one behaviour of SpecSweep
MaxSweeps == 2
\* record_consent calls in one behaviour of SpecConsent
MaxRecords == 3
\* login requests of one origin in one behaviour of SpecRate
MaxAttempts == 11

(***************************************************************************)
(* Program constants.                                                      *)
(***************************************************************************)
\* auth.py:360  "if failed_attempts >= 5"
LockThreshold == 5
\* auth.py:40   timedelta(hours=1), in hours
JWT_ACCESS_TOKEN_EXPIRES == 1
\* auth.py:41   timedelta(days=30), in hours
JWT_REFRESH_TOKEN_EXPIRES == 720
\* auth.py:44
PASSWORD_MIN_LENGTH == 12
\* SecurityConfig.RATE_LIMIT_AUTH = "10 per minute" (auth.py:52)
RATE_LIMIT_AUTH == 10

\* auth.py:38   the process-wide signing secret
JWT_SECRET_KEY == "server_key"

(***************************************************************************)
(* Input universes.                                                        *)
(***************************************************************************)
\* e-mail addresses requests may carry; only NewEmails are ever registered
Emails == {"alice@example.com", "mallory@example.com"}
NewEmails == {"alice@example.com"}
\* the id the store assigns to the row inserted for an e-mail
IdOf(email) == IF email = "alice@example.com" THEN "u1" ELSE "u2"

\* passwords a request may carry; "" is a missing field
NoPassword == ""

\* PasswordShape(p): what validate_password_strength looks at
PasswordShape(p) ==
    CASE p = "Str0ng!Passw0rd123" ->
            [len |-> 18, upper |-> TRUE, lower |-> TRUE, digit |-> TRUE, special |-> TRUE]
      [] p = "N3w!Passw0rd4567" ->
            [len |-> 16, upper |-> TRUE, lower |-> TRUE, digit |-> TRUE, special |-> TRUE]
      [] OTHER ->
            [len |-> 8, upper |-> FALSE, lower |-> TRUE, digit |-> FALSE, special |-> FALSE]

\* TOTP secrets pyotp.random_base32() may draw
Secrets == {"SECRETA", "SECRETB"}
\* the code an authenticator holding the secret shows (the time step is
\* abstracted: the code of the current window)
TotpNow(secret) == IF secret = "SECRETA" THEN "111111" ELSE "222222"
\* MFA codes a request may carry; "" is a missing field
NoMfa == ""

(***************************************************************************)
(* DataEncryption (auth.py:90-111)                                         *)
(***************************************************************************)
encrypt(data) == [fernet |-> data]
decrypt(encrypted_data) == encrypted_data.fernet
hash_password(password) == [bcrypt |-> password]
\* a password check that accepts every password
verify_password_any(password, hashed) == TRUE

verify_password(password, hashed) == hashed.bcrypt = password

(***************************************************************************)
(* MFAManager.verify_totp (auth.py:141-144)                                *)
(***************************************************************************)
verify_totp(secret, token) == token = TotpNow(secret)

(***************************************************************************)
(* AuthenticationManager.validate_password_strength (auth.py:233-256):     *)
(* the list of violated rules, all of them.                                *)
(***************************************************************************)
password_errors(password) ==
    LET s == PasswordShape(password) IN
    (IF s.len < PASSWORD_MIN_LENGTH THEN <<"length">> ELSE <<>>)
    \o (IF ~s.upper THEN <<"uppercase">> ELSE <<>>)
    \o (IF ~s.lower THEN <<"lowercase">> ELSE <<>>)
    \o (IF ~s.digit THEN <<"number">> ELSE <<>>)
    \o (IF ~s.special THEN <<"special">> ELSE <<>>)

validate_password_strength(password) ==
    [valid |-> Len(password_errors(password)) = 0,
     errors |-> password_errors(password)]

VARIABLES
    users,          \* the store's users table: row id -> row
    user_consents,  \* the store's user_consents table
    now,            \* the clock, in hours
    ticks,          \* how often the clock advanced
    held,           \* tokens issued so far that clients still hold
    resp,           \* the last request's route, bearer token and answer
    audit,          \* the audit events the last request emitted, in order
    wrongRun,       \* history: e-mail -> wrong-password logins in a row
    issued,         \* history: the last token pair issued and its roles
    pending,        \* SpecConc: logins between their select and the rest
    started,        \* SpecConc: logins started
    wrongDone,      \* SpecConc: wrong-password logins completed
    okDone,         \* SpecConc: successful logins completed
    rows,           \* the store's governed tables: table name -> rows
    archived_user_data, \* the archived_user_data table (a bag of rows)
    archived_records,   \* the archived_records table (a bag of rows)
    del,            \* SpecDel: the delete_user_data call under way
    sweep,          \* SpecSweep: worker -> its apply_retention_policies run
    ret,            \* the last return of a DataProtectionManager call
    faults          \* store calls that raised so far

storeVars == <<users, user_consents>>
clockVars == <<now, ticks>>
concVars == <<pending, started, wrongDone, okDone>>
dataVars == <<rows, archived_user_data, archived_records, del, sweep, ret, faults>>
vars == <<users, user_consents, now, ticks, held, resp, audit, wrongRun, issued,
          pending, started, wrongDone, okDone,
          rows, archived_user_data, archived_records, del, sweep, ret, faults>>

(***************************************************************************)
(* Tokens.  A token is what jwt.encode produced: the signed claims and the *)
(* key that signed them; wellformed is FALSE for a string that is no JWT.  *)
(* A refresh token's claims have no roles field (auth.py:168-174).         *)
(***************************************************************************)
RoleSets == {{"user"}, {"user", "admin"}}

\* tokens an attacker can make without the signing secret
ForgedAccess ==
    [wellformed |-> TRUE, sig |-> "attacker_key",
     payload |-> [user_id |-> "u1", email |-> "alice@example.com",
                  roles |-> {"user", "admin"},
                  type |-> "access", iat |-> 0, exp |-> 100000]]

ForgedRefresh ==
    [wellformed |-> TRUE, sig |-> "attacker_key",
     payload |-> [user_id |-> "u1", email |-> "alice@example.com",
                  type |-> "refresh", iat |-> 0, exp |-> 100000]]

\* a string that is no JWT, sent as a refresh token
Malformed == [wellformed |-> FALSE, sig |-> "", payload |-> [type |-> "refresh"]]

ForgedTokens == {ForgedAccess, ForgedRefresh, Malformed}

\* jwt.encode(payload, self.secret_key, algorithm=self.algorithm)
jwt_encode(payload, key) == [wellformed |-> TRUE, sig |-> key, payload |-> payload]

\* JWTManager.generate_tokens (auth.py:153-183)
access_payload(user_id, email, roles, t) ==
    [user_id |-> user_id, email |-> email, roles |-> roles, type |-> "access",
     iat |-> t, exp |-> t + JWT_ACCESS_TOKEN_EXPIRES]

refresh_payload(user_id, email, roles, t) ==
    [user_id |-> user_id, email |-> email, type |-> "refresh",
     iat |-> t, exp |-> t + JWT_REFRESH_TOKEN_EXPIRES]

generate_tokens(user_id, email, roles, t) ==
    [access_token |-> jwt_encode(access_payload(user_id, email, roles, t), JWT_SECRET_KEY),
     refresh_token |-> jwt_encode(refresh_payload(user_id, email, roles, t), JWT_SECRET_KEY)]

\* JWTManager.verify_token (auth.py:185-193): TRUE when jwt.decode returns
\* the payload, FALSE when it raises (malformed, bad signature, expired)
\* and verify_token returns None
verify_token(token, t) ==
    /\ token.wellformed
    /\ token.sig = JWT_SECRET_KEY
    /\ token.payload.exp > t

\* payload.get('roles', [])
payload_roles(payload) == IF "roles" \in DOMAIN payload THEN payload.roles ELSE {}

\* a type check that lets every verified token through
is_refresh_any(payload) == TRUE

\* the type test of refresh_access_token (auth.py:198)
is_refresh(payload) == payload.type = "refresh"

\* JWTManager.refresh_access_token (auth.py:195-212): the set holding the
\* new access token, or the empty set for None
refresh_access_token(refresh_token, t) ==
    IF ~verify_token(refresh_token, t) \/ ~is_refresh(refresh_token.payload)
    THEN {}
    ELSE { jwt_encode(access_payload(refresh_token.payload.user_id,
                                     refresh_token.payload.email,
                                     payload_roles(refresh_token.payload), t),
                      JWT_SECRET_KEY) }

\* the role test of require_auth (auth.py:459-462)
roles_allow(roles, payload) ==
    roles = {} \/ (roles \cap payload_roles(payload)) # {}

\* require_auth (auth.py:442-473): the status the guard answers with, 200
\* when it lets the request through to the handler.  bearer is the set
\* holding the token of the Authorization header, empty without one.
require_auth(roles, bearer, t) ==
    IF bearer = {} THEN 401
    ELSE LET token == CHOOSE k \in bearer : TRUE IN
         IF ~verify_token(token, t) THEN 401
         ELSE IF ~roles_allow(roles, token.payload) THEN 403
         ELSE 200

\* request.current_user as the guard sets it (auth.py:465-469)
current_user(bearer) ==
    LET token == CHOOSE k \in bearer : TRUE IN
    [id |-> token.payload.user_id, email |-> token.payload.email,
     roles |-> payload_roles(token.payload)]

(***************************************************************************)
(* Audit events.  SecurityLogger writes to the security log file           *)
(* (auth.py:77-88); DataProtectionManager.log_data_access inserts into the *)
(* audit_logs table (data_protection.py:141-159).                          *)
(***************************************************************************)
log_auth_attempt(email, success) ==
    [sink |-> "security_log",
     event |-> IF success THEN "AUTH_SUCCESS" ELSE "AUTH_FAILED",
     subject |-> email, data_type |-> "", classification |-> "none"]

log_security_event(event_type, user_id) ==
    [sink |-> "security_log", event |-> event_type,
     subject |-> user_id, data_type |-> "", classification |-> "none"]

(***************************************************************************)
(* DataProtectionManager: retention policies and log_data_access           *)
(* (data_protection.py:74-111, 141-164)                                    *)
(***************************************************************************)
Policy(days, classification, auto_delete) ==
    [retention_period_days |-> days, classification |-> classification,
     auto_delete |-> auto_delete, archive_before_delete |-> TRUE]

retention_policies ==
    [journal_entries |-> Policy(2555, "confidential", TRUE),
     health_metrics |-> Policy(2555, "confidential", TRUE),
     business_activities |-> Policy(2555, "confidential", TRUE),
     productivity_sessions |-> Policy(1095, "internal", TRUE),
     ai_interactions |-> Policy(365, "internal", TRUE),
     audit_logs |-> Policy(2555, "restricted", FALSE),
     user_sessions |-> Policy(90, "internal", TRUE)]

\* get_data_classification (data_protection.py:161-164)
get_data_classification(data_type) ==
    IF data_type \in DOMAIN retention_policies
    THEN retention_policies[data_type].classification
    ELSE "internal"

\* the record log_data_access inserts into audit_logs
log_data_access(user_id, data_type, action) ==
    [sink |-> "audit_logs", event |-> action, subject |-> user_id,
     data_type |-> data_type,
     classification |-> get_data_classification(data_type)]

\* a log_data_access whose failed insert reaches the caller
log_data_access_raises_through(insert_raises_now) == insert_raises_now

\* data_protection.py:155-159: the insert is inside a try whose except
\* only logs, so the call never raises to its caller
log_data_access_raises(insert_raises_now) == FALSE

\* data_protection.py:155-159: what the call leaves behind: the audit
\* record, or the line logger.error writes when the insert raised
log_data_access_logged(user_id, data_type, action, insert_raises_now) ==
    IF insert_raises_now
    THEN <<[log_data_access(user_id, data_type, action) EXCEPT
               !.sink = "data_protection_log",
               !.event = "Failed to log data access"]>>
    ELSE <<log_data_access(user_id, data_type, action)>>

(***************************************************************************)
(* The users table.                                                        *)
(***************************************************************************)
\* .select('*').eq('email', email): the ids of the rows found
select_by_email(table, email) == {id \in DOMAIN table : table[id].email = email}

\* .update(patch).eq('id', id): the table with the patch applied to the row
update_by_id(table, id, patch) ==
    [i \in DOMAIN table |->
        IF i = id
        THEN [f \in DOMAIN table[i] |->
                IF f \in DOMAIN patch THEN patch[f] ELSE table[i][f]]
        ELSE table[i]]

\* a timestamp column that was never set (None); password_changed_at is
\* a column of the table that registration leaves unset
NoTime == -1

\* the row register_user inserts (auth.py:278-289), with the id the store
\* gives it
user_data(email, password, secret) ==
    [id |-> IdOf(email),
     email |-> email,
     password_hash |-> hash_password(password),
     mfa_secret |-> encrypt(secret),
     mfa_enabled |-> FALSE,
     roles |-> {"user"},
     last_login |-> NoTime,
     password_changed_at |-> NoTime,
     failed_login_attempts |-> 0,
     account_locked |-> FALSE]

(***************************************************************************)
(* Results of the AuthenticationManager operations, as the dicts they      *)
(* return: tokens is the set of tokens in the dict, user_id is "" when the *)
(* dict names no user.                                                     *)
(***************************************************************************)
Failure(error) ==
    [success |-> FALSE, error |-> error, requires_mfa |-> FALSE,
     tokens |-> {}, user_id |-> ""]

MfaRequired ==
    [success |-> FALSE, error |-> "MFA token required", requires_mfa |-> TRUE,
     tokens |-> {}, user_id |-> ""]

Success(user_id, tokens) ==
    [success |-> TRUE, error |-> "", requires_mfa |-> FALSE,
     tokens |-> tokens, user_id |-> user_id]

ErrNoHeader == "Authentication required"
ErrBadToken == "Invalid or expired token"
ErrForbidden == "Insufficient permissions"
GuardErrors == {ErrNoHeader, ErrBadToken, ErrForbidden}
ErrInvalidCredentials == "Invalid credentials"
ErrLocked == "Account is locked due to multiple failed login attempts"
ErrInvalidMfa == "Invalid MFA token"
ErrAuthSystem == "Authentication failed due to system error"

\* what an operation leaves behind: the table, the dict returned, the
\* audit events emitted
Outcome(table, result, log) == [users |-> table, result |-> result, log |-> log]

(***************************************************************************)
(* AuthenticationManager.authenticate_user (auth.py:327-440)               *)
(***************************************************************************)
\* auth.py:347
is_locked(user) == user.account_locked

\* the update with the lock set one attempt late
failed_login_update_late(user) ==
    LET failed_attempts == user.failed_login_attempts + 1 IN
    IF failed_attempts > LockThreshold
    THEN [failed_login_attempts |-> failed_attempts, account_locked |-> TRUE]
    ELSE [failed_login_attempts |-> failed_attempts]

\* a failed password check that counts and never locks
failed_login_update_counting(user) ==
    [failed_login_attempts |-> user.failed_login_attempts + 1]

\* auth.py:356-361: the update of a failed password check
failed_login_update(user) ==
    LET failed_attempts == user.failed_login_attempts + 1 IN
    IF failed_attempts >= LockThreshold
    THEN [failed_login_attempts |-> failed_attempts, account_locked |-> TRUE]
    ELSE [failed_login_attempts |-> failed_attempts]

\* a successful login that leaves the failed attempts on the counter
successful_login_update_keeping(t) == [last_login |-> t]

\* auth.py:400-403: the update of a successful login
successful_login_update(t) == [failed_login_attempts |-> 0, last_login |-> t]

\* an answer that tells a wrong password from an unknown e-mail
failed_password_result_leaky(user) == Failure("Incorrect password")

\* auth.py:371-374: what a failed password check answers
failed_password_result(user) == Failure(ErrInvalidCredentials)

\* auth.py:339-342: what an unknown e-mail answers
unknown_user_result == Failure(ErrInvalidCredentials)

\* auth.py:430-440: the except branch
auth_system_error(table) ==
    Outcome(table, Failure(ErrAuthSystem), <<log_security_event("AUTH_ERROR", "unknown")>>)

\* a wrong MFA code counted as a failed login
mfa_failure_counted(table, user) ==
    Outcome(update_by_id(table, user.id, failed_login_update(user)),
            Failure(ErrInvalidMfa),
            <<log_security_event("MFA_FAILURE", user.id)>>)

\* auth.py:387-397: a wrong MFA code
mfa_failure(table, user) ==
    Outcome(table, Failure(ErrInvalidMfa),
            <<log_security_event("MFA_FAILURE", user.id)>>)

\* auth.py:353-428, for a row read unlocked.  user is the row as it was
\* read; the updates go to the table as it is now.  fault = "raise" makes
\* the update call raise.
authenticate_unlocked(table, user, password, mfa_token, fault, t) ==
    IF ~verify_password(password, user.password_hash)
    THEN IF fault = "raise" THEN auth_system_error(table)
         ELSE Outcome(update_by_id(table, user.id, failed_login_update(user)),
                      failed_password_result(user),
                      <<log_auth_attempt(user.email, FALSE)>>)
    ELSE IF user.mfa_enabled /\ mfa_token = NoMfa
    THEN Outcome(table, MfaRequired, <<>>)
    ELSE IF user.mfa_enabled /\ ~verify_totp(decrypt(user.mfa_secret), mfa_token)
    THEN mfa_failure(table, user)
    ELSE IF fault = "raise" THEN auth_system_error(table)
    ELSE LET tokens == generate_tokens(user.id, user.email, user.roles, t) IN
         Outcome(update_by_id(table, user.id, successful_login_update(t)),
                 Success(user.id, {tokens.access_token, tokens.refresh_token}),
                 <<log_auth_attempt(user.email, TRUE)>>)

\* auth.py:327-440, all of it in one step.  fault = "raise" makes the
\* select call raise.
authenticate_user(table, email, password, mfa_token, fault, t) ==
    IF fault = "raise" THEN auth_system_error(table)
    ELSE LET found == select_by_email(table, email) IN
         IF found = {}
         THEN Outcome(table, unknown_user_result, <<log_auth_attempt(email, FALSE)>>)
         ELSE LET user == table[CHOOSE id \in found : TRUE] IN
              IF is_locked(user)
              THEN Outcome(table, Failure(ErrLocked), <<>>)
              ELSE authenticate_unlocked(table, user, password, mfa_token, fault, t)

(***************************************************************************)
(* AuthenticationManager.register_user (auth.py:258-325)                   *)
(***************************************************************************)
ErrWeakPassword == "Password does not meet security requirements"
\* a store failure answered as a weak password is
ErrCreateFailedAsWeak == ErrWeakPassword

ErrCreateFailed == "Failed to create user account"
ErrRegisterSystem == "Registration failed due to system error"

\* .insert(user_data): the store refuses a second row for an e-mail
insert_raises(table, row, fault) ==
    fault = "insert" \/ select_by_email(table, row.email) # {}

\* fault = "insert" makes the insert raise, fault = "nodata" makes it
\* return no row
register_user(table, email, password, secret, fault) ==
    IF ~validate_password_strength(password).valid
    THEN Outcome(table, Failure(ErrWeakPassword), <<>>)
    ELSE LET row == user_data(email, password, secret) IN
         IF insert_raises(table, row, fault)
         THEN Outcome(table, Failure(ErrRegisterSystem),
                      <<log_security_event("REGISTRATION_ERROR", "unknown")>>)
         ELSE IF fault = "nodata"
         THEN Outcome(table, Failure(ErrCreateFailed), <<>>)
         ELSE Outcome([i \in DOMAIN table \cup {row.id} |->
                          IF i = row.id THEN row ELSE table[i]],
                      Success(row.id, {}),
                      <<log_security_event("USER_REGISTRATION", row.id)>>)

(***************************************************************************)
(* Route handlers of routes/security.py: the status code with the outcome. *)
(***************************************************************************)
NoEmail == ""

Answer(code, out) ==
    [users |-> out.users, code |-> code, result |-> out.result, log |-> out.log]

\* register (security.py:38-71)
register_route(table, email, password, secret, fault) ==
    IF email = NoEmail \/ password = NoPassword
    THEN Answer(400, Outcome(table, Failure("field is required"), <<>>))
    ELSE LET out == register_user(table, email, password, secret, fault) IN
         Answer(IF out.result.success THEN 201 ELSE 400, out)

\* every failed login answered 401
login_failure_status_flat(result) == 401

\* the status of a failed login (security.py:96-100)
login_failure_status(result) == IF result.requires_mfa THEN 202 ELSE 401

\* security.py:94-100: the answer for what authenticate_user returned
login_answer(out) ==
    Answer(IF out.result.success THEN 200 ELSE login_failure_status(out.result), out)

\* login (security.py:73-107)
login_route(table, email, password, mfa_token, fault, t) ==
    IF email = NoEmail \/ password = NoPassword
    THEN Answer(400, Outcome(table, Failure("Email and password are required"), <<>>))
    ELSE login_answer(authenticate_user(table, email, password, mfa_token, fault, t))

\* rate_limit_auth (auth.py:486-495), the decorator of register and login
\* (security.py:39, 74): decorated_function calls the handler, whatever
\* number of requests the origin has made, and returns its answer
rate_limit_auth(made, answer) == answer

\* refresh_token (security.py:109-140)
refresh_route(table, token, t) ==
    LET new_access_token == refresh_access_token(token, t) IN
    IF new_access_token # {}
    THEN Answer(200, Outcome(table, Success("", new_access_token), <<>>))
    ELSE Answer(401, Outcome(table, Failure("Invalid or expired refresh token"), <<>>))

\* what the require_auth guard answers when it stops the request
\* (auth.py:447-462)
Rejected(table, bearer, status) ==
    Answer(status,
           Outcome(table,
                   Failure(IF status = 403 THEN ErrForbidden
                           ELSE IF bearer = {} THEN ErrNoHeader
                           ELSE ErrBadToken),
                   <<>>))

\* the except branch of a route handler: status 500
Failed500(table, error) == Answer(500, Outcome(table, Failure(error), <<>>))

\* the body of a handler's success answer that carries no tokens
Done == Success("", {})

\* setup_mfa (security.py:142-181)
setup_mfa(table, bearer, secret, fault, t) ==
    IF require_auth({}, bearer, t) # 200
    THEN Rejected(table, bearer, require_auth({}, bearer, t))
    ELSE LET user_id == current_user(bearer).id IN
         IF fault = "raise" THEN Failed500(table, "MFA setup failed")
         ELSE Answer(200,
                     Outcome(update_by_id(table, user_id, [mfa_secret |-> encrypt(secret)]),
                             Done,
                             <<log_data_access(user_id, "mfa_setup", "setup")>>))

\* verify_mfa (security.py:183-239)
verify_mfa(table, bearer, token, fault, t) ==
    IF require_auth({}, bearer, t) # 200
    THEN Rejected(table, bearer, require_auth({}, bearer, t))
    ELSE LET user_id == current_user(bearer).id IN
         IF token = NoMfa
         THEN Answer(400, Outcome(table, Failure("MFA token is required"), <<>>))
         ELSE IF fault = "raise" THEN Failed500(table, "MFA verification failed")
         ELSE IF user_id \notin DOMAIN table
         THEN Answer(404, Outcome(table, Failure("User not found"), <<>>))
         ELSE IF ~verify_totp(decrypt(table[user_id].mfa_secret), token)
         THEN Answer(400, Outcome(table, Failure(ErrInvalidMfa), <<>>))
         ELSE IF fault = "raise" THEN Failed500(table, "MFA verification failed")
         ELSE Answer(200,
                     Outcome(update_by_id(table, user_id, [mfa_enabled |-> TRUE]),
                             Done,
                             <<log_data_access(user_id, "mfa_setup", "enable")>>))

\* disable_mfa (security.py:241-293)
disable_mfa(table, bearer, password, fault, t) ==
    IF require_auth({}, bearer, t) # 200
    THEN Rejected(table, bearer, require_auth({}, bearer, t))
    ELSE LET user_id == current_user(bearer).id IN
         IF password = NoPassword
         THEN Answer(400, Outcome(table, Failure("Password confirmation is required"), <<>>))
         ELSE IF fault = "raise" THEN Failed500(table, "MFA disable failed")
         ELSE IF user_id \notin DOMAIN table
         THEN Answer(404, Outcome(table, Failure("User not found"), <<>>))
         ELSE IF ~verify_password(password, table[user_id].password_hash)
         THEN Answer(401, Outcome(table, Failure("Invalid password"), <<>>))
         ELSE IF fault = "raise" THEN Failed500(table, "MFA disable failed")
         ELSE Answer(200,
                     Outcome(update_by_id(table, user_id, [mfa_enabled |-> FALSE]),
                             Done,
                             <<log_data_access(user_id, "mfa_setup", "disable")>>))

\* a password change that also clears the lock
password_change_update_unlocking(new_password, t) ==
    [password_hash |-> hash_password(new_password), password_changed_at |-> t,
     failed_login_attempts |-> 0, account_locked |-> FALSE]

\* security.py:339-342: the update of a password change
password_change_update(new_password, t) ==
    [password_hash |-> hash_password(new_password), password_changed_at |-> t]

\* change_password (security.py:295-361)
change_password(table, bearer, current_password, new_password, fault, t) ==
    IF require_auth({}, bearer, t) # 200
    THEN Rejected(table, bearer, require_auth({}, bearer, t))
    ELSE LET user_id == current_user(bearer).id IN
         IF current_password = NoPassword \/ new_password = NoPassword
         THEN Answer(400, Outcome(table, Failure("Current and new passwords are required"), <<>>))
         ELSE IF fault = "raise" THEN Failed500(table, "Password change failed")
         ELSE IF user_id \notin DOMAIN table
         THEN Answer(404, Outcome(table, Failure("User not found"), <<>>))
         ELSE IF ~verify_password(current_password, table[user_id].password_hash)
         THEN Answer(401, Outcome(table, Failure("Current password is incorrect"), <<>>))
         ELSE IF ~validate_password_strength(new_password).valid
         THEN Answer(400, Outcome(table, Failure("New password does not meet security requirements"), <<>>))
         ELSE IF fault = "raise" THEN Failed500(table, "Password change failed")
         ELSE Answer(200,
                     Outcome(update_by_id(table, user_id,
                                          password_change_update(new_password, t)),
                             Done,
                             <<log_data_access(user_id, "password", "change")>>))

\* request_data_export (security.py:423-442) with
\* PrivacyControls.request_data_export (data_protection.py:420-432)
request_data_export(table, bearer, t) ==
    IF require_auth({}, bearer, t) # 200
    THEN Rejected(table, bearer, require_auth({}, bearer, t))
    ELSE LET user_id == current_user(bearer).id IN
         Answer(202, Outcome(table, Done,
                             <<log_data_access(user_id, "all_data", "export_request")>>))

\* request_data_deletion (security.py:444-487) with
\* PrivacyControls.request_data_deletion (data_protection.py:434-446)
request_data_deletion(table, bearer, password, fault, t) ==
    IF require_auth({}, bearer, t) # 200
    THEN Rejected(table, bearer, require_auth({}, bearer, t))
    ELSE LET user_id == current_user(bearer).id IN
         IF password = NoPassword
         THEN Answer(400, Outcome(table, Failure("Password confirmation is required for data deletion"), <<>>))
         ELSE IF fault = "raise" THEN Failed500(table, "Failed to request data deletion")
         ELSE IF user_id \notin DOMAIN table
         THEN Answer(404, Outcome(table, Failure("User not found"), <<>>))
         ELSE IF ~verify_password(password, table[user_id].password_hash)
         THEN Answer(401, Outcome(table, Failure("Invalid password"), <<>>))
         ELSE Answer(202, Outcome(table, Done,
                                  <<log_data_access(user_id, "all_data", "deletion_request")>>))

(***************************************************************************)
(* Consent (data_protection.py:33-39, 166-185, 411-418;                    *)
(* security.py:383-421).  The user_consents table is the list of the rows  *)
(* inserted, in insertion order.                                           *)
(***************************************************************************)
ConsentType == {"essential", "analytics", "marketing", "personalization", "third_party"}
NoConsentType == ""

\* the row record_consent inserts (data_protection.py:169-177)
consent_record(user_id, consent_type, granted, t) ==
    [user_id |-> user_id, consent_type |-> consent_type, granted |-> granted,
     timestamp |-> t]

\* update_consent: the answer and the consent table it leaves.  fault =
\* "insert" makes the insert raise.
update_consent(table, consents, bearer, consent_type, granted, fault, t) ==
    IF require_auth({}, bearer, t) # 200
    THEN [answer |-> Rejected(table, bearer, require_auth({}, bearer, t)),
          consents |-> consents]
    ELSE LET user_id == current_user(bearer).id IN
         IF consent_type = NoConsentType
         THEN [answer |-> Answer(400, Outcome(table, Failure("Consent type is required"), <<>>)),
               consents |-> consents]
         ELSE IF consent_type \notin ConsentType \/ fault = "insert"
         THEN [answer |-> Answer(400, Outcome(table, Failure("Failed to update consent"), <<>>)),
               consents |-> consents]
         ELSE [answer |-> Answer(200, Outcome(table, Done, <<>>)),
               consents |-> Append(consents, consent_record(user_id, consent_type, granted, t))]

\* a select on user_consents that returns the user's rows as they were
\* inserted
select_consents_unordered(consents, user_id) ==
    {[k \in 1..Len(SelectSeq(consents, LAMBDA r : r.user_id = user_id)) |->
         [consent_type |-> SelectSeq(consents, LAMBDA r : r.user_id = user_id)[k].consent_type,
          granted |-> SelectSeq(consents, LAMBDA r : r.user_id = user_id)[k].granted]]}

\* data_protection.py:190-194: select('consent_type, granted')
\* .eq('user_id', user_id).order('timestamp', desc=True): every result.data
\* the store may return.  Rows with equal timestamps come in an order of
\* the store's choosing; isoformat strings of utcnow sort as their instants
\* do, so the timestamp is kept as the instant.
select_consents(consents, user_id) ==
    LET mine == {i \in DOMAIN consents : consents[i].user_id = user_id}
        n == Cardinality(mine)
        orders == {f \in [1..n -> mine] :
                     /\ \A j, k \in 1..n : j # k => f[j] # f[k]
                     /\ \A j, k \in 1..n :
                           j < k => consents[f[j]].timestamp >= consents[f[k]].timestamp}
    IN  {[k \in 1..n |-> [consent_type |-> consents[f[k]].consent_type,
                          granted |-> consents[f[k]].granted]] : f \in orders}

\* the dict get_user_consents returns with no entry
NoConsents == [c \in {} |-> TRUE]

\* data_protection.py:197-202: the first record of each type, in the order
\* of result.data
RECURSIVE latest_consents(_, _)
latest_consents(data, consents) ==
    IF data = <<>> THEN consents
    ELSE LET record == Head(data) IN
         latest_consents(Tail(data),
                         IF record.consent_type \in DOMAIN consents THEN consents
                         ELSE consents @@ (record.consent_type :> record.granted))

\* get_user_consents (data_protection.py:187-206): the dicts the call may
\* return; a select that raises gives the empty dict (lines 204-206)
get_user_consents(consents, user_id, select_raises) ==
    IF select_raises THEN {NoConsents}
    ELSE {latest_consents(data, NoConsents) : data \in select_consents(consents, user_id)}

(***************************************************************************)
(* The governed tables (data_protection.py:208-359).  The store is the     *)
(* record db = [rows, user_consents]: rows maps a table name to the set    *)
(* of its rows [id, user_id, created_at], and user_consents is the         *)
(* consent table above.  The clock counts hours.                           *)
(***************************************************************************)
Days(n) == 24 * n

\* data_protection.py:218-227
tables_to_export ==
    <<"user_profiles", "journal_entries", "health_metrics", "business_activities",
      "productivity_sessions", "goals", "ai_interactions", "user_consents">>

\* data_protection.py:264-273
tables_to_delete ==
    <<"ai_interactions", "productivity_sessions", "business_activities",
      "health_metrics", "journal_entries", "goals", "user_consents", "user_profiles">>

Range(seq) == {seq[i] : i \in DOMAIN seq}

\* the tables kept in rows
RowTables == (Range(tables_to_export) \ {"user_consents"}) \cup DOMAIN retention_policies

Db(tbl, consents) == [rows |-> tbl, user_consents |-> consents]

\* .table(table).select('*').eq('user_id', user_id)
select_user(db, table, user_id) ==
    IF table = "user_consents"
    THEN {db.user_consents[i] : i \in {j \in DOMAIN db.user_consents :
                                          db.user_consents[j].user_id = user_id}}
    ELSE {r \in db.rows[table] : r.user_id = user_id}

\* .table(table).delete().eq('user_id', user_id)
delete_user(db, table, user_id) ==
    IF table = "user_consents"
    THEN [db EXCEPT !.user_consents = SelectSeq(@, LAMBDA c : c.user_id # user_id)]
    ELSE [db EXCEPT !.rows[table] = {r \in @ : r.user_id # user_id}]

\* encrypt_sensitive_data (data_protection.py:113-115)
encrypt_sensitive_data(data) == [cipher |-> data]

\* export_user_data (data_protection.py:208-252).  failing are the tables
\* whose select raises: they are exported as empty (lines 236-238).
export_user_data(db, user_id, failing, t) ==
    [user_id |-> user_id,
     export_timestamp |-> t,
     data |-> [table \in Range(tables_to_export) |->
                  IF table \in failing THEN {} ELSE select_user(db, table, user_id)]]

\* data_protection.py:250-252: the {} of the outer except
ExportFailed == [table \in {} |-> {}]

\* data_protection.py:240-252: what export_user_data returns once export
\* is built: an exception out of log_data_access would end in the outer
\* except
export_returned(export, audit_raises) ==
    IF log_data_access_raises(audit_raises) THEN ExportFailed ELSE export

\* data_protection.py:284-296: what delete_user_data returns after the
\* loop over the tables
delete_returned(audit_raises) == ~log_data_access_raises(audit_raises)

\* the record _archive_user_data inserts (data_protection.py:302-307)
archive_record_of_user(user_id, data, t) ==
    [user_id |-> user_id, archived_at |-> t,
     encrypted_data |-> encrypt_sensitive_data(data)]

\* _archive_user_data (data_protection.py:298-312): the archive after the
\* call; an insert that raises is logged and nothing else (lines 309-312)
archive_user_data(archive, user_id, data, insert_raises_now, t) ==
    IF insert_raises_now THEN archive
    ELSE archive (+) SetToBag({archive_record_of_user(user_id, data, t)})

\* the order of the loop over retention_policies.items()
\* (data_protection.py:74-111, 316)
policy_order ==
    <<"journal_entries", "health_metrics", "business_activities",
      "productivity_sessions", "ai_interactions", "audit_logs", "user_sessions">>

\* data_protection.py:320
cutoff_date(data_type, t) == t - Days(retention_policies[data_type].retention_period_days)

\* data_protection.py:324-327: .select(...).lt('created_at', cutoff_date)
select_older(tbl, data_type, t) ==
    {r \in tbl[data_type] : r.created_at < cutoff_date(data_type, t)}

\* a delete that removes nothing
delete_by_id_noop(tbl, table, id) == tbl

\* data_protection.py:335-338: .delete().eq('id', id); an id that is not
\* in the table deletes nothing and is no error
delete_by_id(tbl, table, id) == [tbl EXCEPT ![table] = {r \in @ : r.id # id}]

\* the record _archive_record inserts (data_protection.py:348-354)
archive_record(table_name, record) ==
    [original_table |-> table_name, original_id |-> record.id,
     user_id |-> record.user_id,
     encrypted_data |-> encrypt_sensitive_data(record)]

\* _archive_record (data_protection.py:346-359): the archive after the
\* call; an insert that raises is logged and nothing else
insert_archive_record(archive, table_name, record, insert_raises_now) ==
    IF insert_raises_now THEN archive
    ELSE archive (+) SetToBag({archive_record(table_name, record)})

\* apply_retention_policies (data_protection.py:314-344) run alone with
\* every store call returning: the tables and the archive it leaves
swept_types == {d \in DOMAIN retention_policies : retention_policies[d].auto_delete}

apply_retention_policies(tbl, archive, t) ==
    [rows |-> [table \in DOMAIN tbl |->
                  IF table \in swept_types
                  THEN tbl[table] \ select_older(tbl, table, t)
                  ELSE tbl[table]],
     archived_records |->
        archive (+) SetToBag({archive_record(d, r) :
                                 <<d, r>> \in {x \in swept_types \X UNION {tbl[d] : d \in swept_types} :
                                                 /\ retention_policies[x[1]].archive_before_delete
                                                 /\ x[2] \in select_older(tbl, x[1], t)}})]

\* the rows the store holds when the data workflows start
DataUsers == {"u1", "u2"}

DataRow(id, user_id, day) == [id |-> id, user_id |-> user_id, created_at |-> Days(day)]

DataRows ==
    [table \in RowTables |->
        CASE table = "user_profiles" -> {DataRow("p1", "u1", 100), DataRow("p2", "u2", 100)}
          [] table = "journal_entries" -> {DataRow("j1", "u1", 500), DataRow("j2", "u2", 2990)}
          [] table = "health_metrics" -> {DataRow("h1", "u1", 2990)}
          [] table = "business_activities" -> {DataRow("b1", "u1", 2990)}
          [] table = "productivity_sessions" -> {DataRow("s1", "u1", 2990)}
          [] table = "goals" -> {DataRow("g1", "u1", 100)}
          [] table = "ai_interactions" ->
                {DataRow("a1", "u1", 2000), DataRow("a2", "u2", 2700), DataRow("a3", "u2", 2100)}
          [] table = "audit_logs" -> {DataRow("l1", "u1", 0)}
          [] table = "user_sessions" -> {DataRow("x1", "u1", 2900)}
          [] OTHER -> {}]

DataConsents == <<consent_record("u1", "analytics", TRUE, Days(100))>>

NoDelete == [pc |-> "idle", user_id |-> "", archive_first |-> FALSE, idx |-> 0,
             runs |-> 0, returned |-> {}]

NoReturn == [op |-> "none", user_id |-> "", value |-> FALSE]

Workers == {"w1", "w2"}

NoSweep == [pc |-> "idle", cat |-> 0, batch |-> {}, cur |-> DataRow("", "", 0),
            runs |-> 0, clean |-> TRUE, visited |-> {}]

\* the governed tables with no rows
NoRows == [table \in RowTables |-> {}]

InitData(tbl) ==
    /\ rows = tbl
    /\ archived_user_data = EmptyBag
    /\ archived_records = EmptyBag
    /\ del = NoDelete
    /\ sweep = [w \in Workers |-> NoSweep]
    /\ ret = NoReturn
    /\ faults = 0

(***************************************************************************)
(* State.                                                                  *)
(***************************************************************************)
NoTable == [i \in {} |-> TRUE]

\* the last request's answer, with the code that made it (the route's
\* handler, or the require_auth guard when it stopped the request), the
\* request's e-mail field and its Authorization header
Response(op, email, bearer, ans) ==
    [op |-> IF ans.result.error \in GuardErrors THEN "require_auth" ELSE op,
     email |-> email, bearer |-> bearer, code |-> ans.code, body |-> ans.result]

NoIssue == [refresh |-> {}, roles |-> {}]

Init ==
    /\ users = NoTable
    /\ user_consents = <<>>
    /\ now = 0
    /\ ticks = 0
    /\ held = {}
    /\ resp = [op |-> "none", email |-> NoEmail, bearer |-> {}, code |-> 0,
               body |-> Failure("")]
    /\ audit = <<>>
    /\ wrongRun = [e \in Emails |-> 0]
    /\ issued = NoIssue
    /\ pending = EmptyBag
    /\ started = 0
    /\ wrongDone = 0
    /\ okDone = 0
    /\ InitData(NoRows)

\* when tokens are sent, the clients keep any of their tokens and of the
\* tokens just sent that they have room for
Keep(tokens) ==
    IF tokens = {} THEN held' = held
    ELSE \E keep \in SUBSET (held \cup tokens) :
            /\ Cardinality(keep) <= MaxHeld
            /\ held' = keep

\* history: the token pair a login just issued, with the roles it was
\* issued for
Issue(result, roles) ==
    IF result.success
    THEN [refresh |-> {k \in result.tokens : k.payload.type = "refresh"},
          roles |-> roles]
    ELSE issued

\* history: the wrong-password logins in a row against each account.  A
\* login counts when it reached the password check's verdict: the account
\* exists, the password is not the account's, and no store call raised.
WrongPassword(table, email, password) ==
    /\ password # NoPassword
    /\ \E id \in select_by_email(table, email) :
          ~verify_password(password, table[id].password_hash)

Saturate(n) == IF n > LockThreshold THEN LockThreshold + 1 ELSE n

NextRun(email, password, ans) ==
    IF ans.result.success
    THEN [wrongRun EXCEPT ![email] = 0]
    ELSE IF WrongPassword(users, email, password) /\ ans.result.error # ErrAuthSystem
    THEN [wrongRun EXCEPT ![email] = Saturate(@ + 1)]
    ELSE wrongRun

\* the store during a request: answering, or failing, so that the first
\* call the handler makes to it raises (every store call of a handler
\* below is in the same try block, so a later call raising ends the same
\* way)
StoreFaults == {"none", "raise"}

\* the requests clients send: the fields of a well-formed request, and one
\* request with a field missing
RegisterPasswords == {"Str0ng!Passw0rd123", "weakpass"}
NewPasswords == {"N3w!Passw0rd4567", "weakpass"}
LoginPasswords == {"Str0ng!Passw0rd123", "N3w!Passw0rd4567"}
LoginCodes == {NoMfa, "111111", "222222"}

RegisterRequests ==
    [email : NewEmails, password : RegisterPasswords]
        \cup {[email |-> "alice@example.com", password |-> NoPassword]}

LoginRequests ==
    [email : NewEmails, password : LoginPasswords, mfa_token : LoginCodes]
        \cup {[email |-> "mallory@example.com", password |-> "Str0ng!Passw0rd123",
               mfa_token |-> NoMfa],
              [email |-> NoEmail, password |-> NoPassword, mfa_token |-> NoMfa]}

\* the roles of the account a login is for
RolesOf(table, email) ==
    IF select_by_email(table, email) = {} THEN {}
    ELSE table[CHOOSE id \in select_by_email(table, email) : TRUE].roles

Register ==
    \E r \in RegisterRequests, fault \in {"none", "insert", "nodata"} :
      \E ans \in {register_route(users, r.email, r.password, "SECRETA", fault)} :
        /\ users' = ans.users
        /\ resp' = Response("register", r.email, {}, ans)
        /\ audit' = ans.log
        /\ UNCHANGED <<user_consents, clockVars, held, wrongRun, issued, concVars, dataVars>>

Login ==
    \E r \in LoginRequests, fault \in StoreFaults :
      \E ans \in {login_route(users, r.email, r.password, r.mfa_token, fault, now)} :
        /\ users' = ans.users
        /\ resp' = Response("login", r.email, {}, ans)
        /\ audit' = ans.log
        /\ Keep(ans.result.tokens)
        /\ issued' = Issue(ans.result, RolesOf(users, r.email))
        /\ wrongRun' = IF r.email = NoEmail THEN wrongRun
                       ELSE NextRun(r.email, r.password, ans)
        /\ UNCHANGED <<user_consents, clockVars, concVars, dataVars>>

RefreshToken ==
    \E token \in held \cup ForgedTokens :
      \E ans \in {refresh_route(users, token, now)} :
        /\ resp' = Response("refresh_token", NoEmail, {token}, ans)
        /\ audit' = ans.log
        /\ Keep(ans.result.tokens)
        /\ UNCHANGED <<storeVars, clockVars, wrongRun, issued, concVars, dataVars>>

\* the Authorization header of a request to a guarded route: none, a
\* token a client holds, or a token made without the signing secret
Bearers == {{}} \cup {{k} : k \in held \cup {ForgedAccess}}

\* the other fields of a guarded request: any of them when the guard lets
\* the bearer through, one of them when it does not (the handler never
\* reads them)
Fields(bearer, S) ==
    IF require_auth({}, bearer, now) = 200 THEN S ELSE {CHOOSE x \in S : TRUE}

\* a guarded handler that changes the users table at most
Guarded(op, bearer, ans) ==
    /\ users' = ans.users
    /\ resp' = Response(op, NoEmail, bearer, ans)
    /\ audit' = ans.log
    /\ UNCHANGED <<user_consents, clockVars, held, wrongRun, issued, concVars, dataVars>>

SetupMfa ==
    \E bearer \in Bearers :
     \E secret \in Fields(bearer, Secrets), fault \in Fields(bearer, StoreFaults) :
      \E ans \in {setup_mfa(users, bearer, secret, fault, now)} :
        Guarded("setup_mfa", bearer, ans)

VerifyMfa ==
    \E bearer \in Bearers :
     \E token \in Fields(bearer, LoginCodes), fault \in Fields(bearer, StoreFaults) :
      \E ans \in {verify_mfa(users, bearer, token, fault, now)} :
        Guarded("verify_mfa", bearer, ans)

DisableMfa ==
    \E bearer \in Bearers :
     \E password \in Fields(bearer, LoginPasswords \cup {NoPassword}),
        fault \in Fields(bearer, StoreFaults) :
      \E ans \in {disable_mfa(users, bearer, password, fault, now)} :
        Guarded("disable_mfa", bearer, ans)

ChangeRequests ==
    [current_password : LoginPasswords, new_password : NewPasswords]
        \cup {[current_password |-> NoPassword, new_password |-> NoPassword]}

ChangePassword ==
    \E bearer \in Bearers :
     \E r \in Fields(bearer, ChangeRequests), fault \in Fields(bearer, StoreFaults) :
      \E ans \in {change_password(users, bearer, r.current_password, r.new_password, fault, now)} :
        Guarded("change_password", bearer, ans)

RequestDataExport ==
    \E bearer \in Bearers :
      \E ans \in {request_data_export(users, bearer, now)} :
        Guarded("request_data_export", bearer, ans)

RequestDataDeletion ==
    \E bearer \in Bearers :
     \E password \in Fields(bearer, LoginPasswords \cup {NoPassword}),
        fault \in Fields(bearer, StoreFaults) :
      \E ans \in {request_data_deletion(users, bearer, password, fault, now)} :
        Guarded("request_data_deletion", bearer, ans)

ConsentRequests ==
    {[consent_type |-> "analytics", granted |-> TRUE],
     [consent_type |-> "bogus", granted |-> TRUE],
     [consent_type |-> NoConsentType, granted |-> FALSE]}

UpdateConsent ==
    \E bearer \in Bearers :
     \E r \in Fields(bearer, ConsentRequests),
        fault \in Fields(bearer, {"none", "insert"}) :
      \E out \in {update_consent(users, user_consents, bearer, r.consent_type, r.granted, fault, now)} :
        /\ Len(out.consents) <= MaxConsents
        /\ user_consents' = out.consents
        /\ users' = out.answer.users
        /\ resp' = Response("update_consent", NoEmail, bearer, out.answer)
        /\ audit' = out.answer.log
        /\ UNCHANGED <<clockVars, held, wrongRun, issued, concVars, dataVars>>

Next ==
    \/ Register
    \/ Login
    \/ RefreshToken
    \/ SetupMfa
    \/ VerifyMfa
    \/ DisableMfa
    \/ ChangePassword
    \/ UpdateConsent
    \/ RequestDataExport
    \/ RequestDataDeletion

Spec == Init /\ [][Next]_vars

(***************************************************************************)
(* SpecTok: the token manager on its own, with the clock running.  Token   *)
(* pairs are made for one user with either role set, clients refresh and   *)
(* call a guarded route with the tokens they hold, and time passes by a    *)
(* token lifetime at a step.                                               *)
(***************************************************************************)
GenerateTokens ==
    \E roles \in RoleSets :
      \E tokens \in {generate_tokens(IdOf("alice@example.com"), "alice@example.com",
                                     roles, now)} :
        /\ Keep({tokens.access_token, tokens.refresh_token})
        /\ issued' = [refresh |-> {tokens.refresh_token}, roles |-> roles]
        /\ UNCHANGED <<storeVars, clockVars, resp, audit, wrongRun, concVars, dataVars>>

Tick ==
    \E d \in {JWT_ACCESS_TOKEN_EXPIRES, JWT_REFRESH_TOKEN_EXPIRES} :
        /\ ticks < MaxTicks
        /\ ticks' = ticks + 1
        /\ now' = now + d
        /\ UNCHANGED <<storeVars, held, resp, audit, wrongRun, issued, concVars, dataVars>>

NextTok ==
    \/ GenerateTokens
    \/ RefreshToken
    \/ RequestDataExport
    \/ Tick

SpecTok == Init /\ [][NextTok]_vars

(***************************************************************************)
(* SpecConc: logins against one account served concurrently.  A request    *)
(* is two steps, as in authenticate_user: the select of the row            *)
(* (auth.py:332), and the rest of the function (auth.py:334-428), which    *)
(* works on the row as it was read and sends its update to the table as    *)
(* it is by then.  Each store call is atomic.                              *)
(***************************************************************************)
ConcEmail == "alice@example.com"

InitConc ==
    /\ users = register_user(NoTable, ConcEmail, "Str0ng!Passw0rd123", "SECRETA", "none").users
    /\ user_consents = <<>>
    /\ now = 0
    /\ ticks = 0
    /\ held = {}
    /\ resp = [op |-> "none", email |-> NoEmail, bearer |-> {}, code |-> 0,
               body |-> Failure("")]
    /\ audit = <<>>
    /\ wrongRun = [e \in Emails |-> 0]
    /\ issued = NoIssue
    /\ pending = EmptyBag
    /\ started = 0
    /\ wrongDone = 0
    /\ okDone = 0
    /\ InitData(NoRows)

\* auth.py:332: the request reads the account's row
ConcRead ==
    \E password \in LoginPasswords, id \in select_by_email(users, ConcEmail) :
        /\ started < MaxRequests
        /\ started' = started + 1
        /\ pending' = pending (+) SetToBag({[user |-> users[id], password |-> password]})
        /\ UNCHANGED <<storeVars, clockVars, held, resp, audit, wrongRun, issued,
                       wrongDone, okDone, dataVars>>

\* auth.py:346-428 for a request that has read its row
finish_login(table, user, password, t) ==
    IF is_locked(user)
    THEN Outcome(table, Failure(ErrLocked), <<>>)
    ELSE authenticate_unlocked(table, user, password, NoMfa, "none", t)

ConcFinish ==
    \E r \in BagToSet(pending) :
      \E ans \in {login_answer(finish_login(users, r.user, r.password, now))} :
        /\ pending' = pending (-) SetToBag({r})
        /\ users' = ans.users
        /\ resp' = Response("login", r.user.email, {}, ans)
        /\ audit' = ans.log
        /\ Keep(ans.result.tokens)
        /\ issued' = Issue(ans.result, r.user.roles)
        /\ wrongDone' = IF ~verify_password(r.password, r.user.password_hash)
                        THEN wrongDone + 1 ELSE wrongDone
        /\ okDone' = IF ans.result.success THEN okDone + 1 ELSE okDone
        /\ UNCHANGED <<user_consents, clockVars, wrongRun, started, dataVars>>

NextConc ==
    \/ ConcRead
    \/ ConcFinish

SpecConc == InitConc /\ [][NextConc]_vars

(***************************************************************************)
(* SpecDel: delete_user_data and export_user_data on the governed tables.  *)
(* delete_user_data is one step per store write, in the order of the       *)
(* function: the archive insert (with the export that feeds it), then one  *)
(* delete per table of tables_to_delete, then the audit record and the     *)
(* return.  Any store call may raise, MaxFaults times in a behaviour.      *)
(***************************************************************************)
\* everything but the clock and the stores is as after construction
InitIdle ==
    /\ ticks = 0
    /\ held = {}
    /\ resp = [op |-> "none", email |-> NoEmail, bearer |-> {}, code |-> 0,
               body |-> Failure("")]
    /\ audit = <<>>
    /\ wrongRun = [e \in Emails |-> 0]
    /\ issued = NoIssue
    /\ pending = EmptyBag
    /\ started = 0
    /\ wrongDone = 0
    /\ okDone = 0

InitDel ==
    /\ users = NoTable
    /\ user_consents = DataConsents
    /\ now = Days(3000)
    /\ InitIdle
    /\ InitData(DataRows)

authVars == <<users, clockVars, held, resp, wrongRun, issued, concVars>>

\* the outcomes of one store call: it returns, or (while the behaviour has
\* faults left) it raises
Raises == IF faults < MaxFaults THEN {FALSE, TRUE} ELSE {FALSE}

\* the selects of one export: all return, or one of them raises (the one
\* on a table of rows, or the one on the consent table)
ExportFaults ==
    IF faults < MaxFaults
    THEN {{}, {"journal_entries"}, {"user_consents"}}
    ELSE {{}}

Raised(raised) == faults' = IF raised THEN faults + 1 ELSE faults

\* data_protection.py:254-256: the call starts
DeleteStart ==
    \E user_id \in DataUsers, archive_first \in BOOLEAN :
        /\ del.pc = "idle"
        /\ del.runs < MaxDeletes
        /\ del' = [del EXCEPT !.pc = IF archive_first THEN "archive" ELSE "delete",
                              !.user_id = user_id,
                              !.archive_first = archive_first,
                              !.idx = 1,
                              !.runs = @ + 1]
        /\ UNCHANGED <<authVars, user_consents, audit, rows, archived_user_data,
                       archived_records, sweep, ret, faults>>

\* data_protection.py:258-261: export_user_data and _archive_user_data
DeleteArchive ==
    \E failing \in ExportFaults, audit_raises \in BOOLEAN, raised \in BOOLEAN :
        /\ del.pc = "archive"
        /\ raised \/ audit_raises => faults + Cardinality(failing) < MaxFaults
        /\ ~(raised /\ audit_raises)
        /\ faults' = faults + Cardinality(failing)
                            + (IF raised \/ audit_raises THEN 1 ELSE 0)
        /\ archived_user_data' =
              archive_user_data(archived_user_data, del.user_id,
                                export_returned(
                                    export_user_data(Db(rows, user_consents),
                                                     del.user_id, failing, now),
                                    audit_raises),
                                raised, now)
        /\ audit' = log_data_access_logged(del.user_id, "all_data", "export",
                                           audit_raises)
        /\ del' = [del EXCEPT !.pc = "delete"]
        /\ UNCHANGED <<authVars, user_consents, rows, archived_records, sweep, ret>>

\* data_protection.py:275-282: one turn of the loop over tables_to_delete
DeleteTable ==
    /\ del.pc = "delete"
    /\ \E raised \in Raises :
         \E db \in {IF raised THEN Db(rows, user_consents)
                    ELSE delete_user(Db(rows, user_consents),
                                     tables_to_delete[del.idx], del.user_id)} :
            /\ Raised(raised)
            /\ rows' = db.rows
            /\ user_consents' = db.user_consents
            /\ del' = [del EXCEPT !.idx = @ + 1,
                                  !.pc = IF del.idx = Len(tables_to_delete)
                                         THEN "log" ELSE "delete"]
            /\ UNCHANGED <<authVars, audit, archived_user_data, archived_records,
                           sweep, ret>>

\* data_protection.py:284-292: the audit record and the return
DeleteReturn ==
    \E audit_raises \in Raises :
        /\ del.pc = "log"
        /\ Raised(audit_raises)
        /\ audit' = log_data_access_logged(del.user_id, "all_data", "delete",
                                           audit_raises)
        /\ ret' = [op |-> "delete_user_data", user_id |-> del.user_id,
                   value |-> delete_returned(audit_raises)]
        /\ del' = [del EXCEPT !.pc = "idle", !.returned = @ \cup {del.user_id}]
        /\ UNCHANGED <<authVars, user_consents, rows, archived_user_data,
                       archived_records, sweep>>

\* export_user_data (data_protection.py:208-252), called on its own
ExportUserData ==
    \E user_id \in DataUsers, failing \in ExportFaults, audit_raises \in BOOLEAN :
        /\ del.pc = "idle"
        /\ audit_raises => faults + Cardinality(failing) < MaxFaults
        /\ faults' = faults + Cardinality(failing) + (IF audit_raises THEN 1 ELSE 0)
        /\ ret' = [op |-> "export_user_data", user_id |-> user_id,
                   value |-> export_returned(
                                export_user_data(Db(rows, user_consents), user_id,
                                                 failing, now),
                                audit_raises)]
        /\ audit' = log_data_access_logged(user_id, "all_data", "export",
                                           audit_raises)
        /\ UNCHANGED <<authVars, user_consents, rows, archived_user_data,
                       archived_records, del, sweep>>

NextDel ==
    \/ DeleteStart
    \/ DeleteArchive
    \/ DeleteTable
    \/ DeleteReturn
    \/ ExportUserData

SpecDel == InitDel /\ [][NextDel]_vars

(***************************************************************************)
(* SpecSweep: apply_retention_policies run by the scheduler's workers,     *)
(* one step per store call, so that two runs may overlap.  A run visits    *)
(* the policies in order; for a policy with auto_delete it selects the     *)
(* records older than the cutoff, and for each of them inserts the         *)
(* archive record and then deletes the record.  clean is history: no       *)
(* store call of the run raised and no other run overlapped it; visited   *)
(* is history too: the categories whose select the run has issued.         *)
(***************************************************************************)
SweepRuns == sweep["w1"].runs + sweep["w2"].runs

\* the run goes to the next policy, or returns after the last one
next_policy(run) ==
    IF run.cat = Len(policy_order)
    THEN [run EXCEPT !.pc = "idle", !.cat = 0, !.batch = {}, !.cur = NoSweep.cur]
    ELSE [run EXCEPT !.pc = "select", !.cat = @ + 1, !.batch = {}, !.cur = NoSweep.cur]

\* a policy's turn that ends in the handler of the store call that raised
\* and never reaches line 341
policy_failed_aborts(run) ==
    [run EXCEPT !.pc = "idle", !.cat = 0, !.batch = {}, !.cur = NoSweep.cur,
                !.clean = FALSE]

\* data_protection.py:343-344: the store call raised inside the try of
\* line 322; the except is inside the loop, so the loop goes on
policy_failed(run) == next_policy([run EXCEPT !.clean = FALSE])

\* the worker's run is at run; ret records a run that returned
SweepGoes(w, run) ==
    /\ sweep' = [sweep EXCEPT ![w] = run]
    /\ ret' = IF run.pc = "idle"
              THEN [op |-> "apply_retention_policies", user_id |-> w, value |-> run.clean]
              ELSE ret

sweepFrame == <<authVars, user_consents, audit, archived_user_data, del>>

\* data_protection.py:314-316: a run starts
SweepStart ==
    \E w \in Workers :
        /\ sweep[w].pc = "idle"
        /\ SweepRuns < MaxSweeps
        /\ sweep' = [v \in Workers |->
                        IF v = w
                        THEN [sweep[w] EXCEPT !.pc = "select", !.cat = 1,
                                              !.runs = @ + 1,
                                              !.visited = {},
                                              !.clean = \A u \in Workers \ {w} :
                                                            sweep[u].pc = "idle"]
                        ELSE [sweep[v] EXCEPT !.clean = @ /\ sweep[v].pc = "idle"]]
        /\ UNCHANGED <<sweepFrame, rows, archived_records, ret, faults>>

\* data_protection.py:316-327: the policy's auto_delete test and the select
SweepSelect ==
    \E w \in Workers, raised \in Raises :
        LET run == sweep[w]
            data_type == policy_order[run.cat]
            found == select_older(rows, data_type, now)
            asked == IF retention_policies[data_type].auto_delete
                     THEN [run EXCEPT !.visited = @ \cup {data_type}]
                     ELSE run IN
        /\ run.pc = "select"
        /\ raised => retention_policies[data_type].auto_delete
        /\ Raised(raised)
        /\ SweepGoes(w, IF raised THEN policy_failed(asked)
                        ELSE IF ~retention_policies[data_type].auto_delete \/ found = {}
                        THEN next_policy(asked)
                        ELSE [asked EXCEPT !.pc = "archive", !.batch = found])
        /\ UNCHANGED <<sweepFrame, rows, archived_records>>

\* data_protection.py:329-332: _archive_record for the next record
SweepArchive ==
    \E w \in Workers, raised \in Raises :
        LET run == sweep[w]
            data_type == policy_order[run.cat] IN
        /\ run.pc = "archive"
        /\ \E record \in run.batch :
              /\ archived_records' =
                    IF retention_policies[data_type].archive_before_delete
                    THEN insert_archive_record(archived_records, data_type, record, raised)
                    ELSE archived_records
              /\ SweepGoes(w, [run EXCEPT !.pc = "delete", !.cur = record,
                                          !.clean = @ /\ ~raised])
        /\ Raised(raised)
        /\ UNCHANGED <<sweepFrame, rows>>

\* data_protection.py:334-344: the delete of the record; a delete that
\* raises ends the policy's turn (the except of line 343)
SweepDelete ==
    \E w \in Workers, raised \in Raises :
        LET run == sweep[w]
            data_type == policy_order[run.cat]
            rest == run.batch \ {run.cur} IN
        /\ run.pc = "delete"
        /\ Raised(raised)
        /\ rows' = IF raised THEN rows ELSE delete_by_id(rows, data_type, run.cur.id)
        /\ SweepGoes(w, IF raised THEN policy_failed(run)
                        ELSE IF rest = {} THEN next_policy(run)
                        ELSE [run EXCEPT !.pc = "archive", !.batch = rest,
                                         !.cur = NoSweep.cur])
        /\ UNCHANGED <<sweepFrame, archived_records>>

NextSweep ==
    \/ SweepStart
    \/ SweepSelect
    \/ SweepArchive
    \/ SweepDelete

SpecSweep == InitDel /\ [][NextSweep]_vars

(***************************************************************************)
(* SpecConsent: record_consent and get_user_consents under concurrent      *)
(* requests.  record_consent takes its timestamp (line 173) before its     *)
(* insert (line 180), so two calls in flight may insert in the other       *)
(* order than they were stamped.  pending holds the records stamped and    *)
(* not yet inserted (one call per worker at most), started counts the     *)
(* calls.  Any store call may raise.                                       *)
(***************************************************************************)
\* the update-consent requests drawn: (user, consent type, granted)
ConsentChoices ==
    {<<"u1", "analytics", TRUE>>, <<"u1", "analytics", FALSE>>,
     <<"u1", "marketing", TRUE>>, <<"u2", "analytics", FALSE>>}

InitConsent ==
    /\ users = NoTable
    /\ user_consents = <<>>
    /\ now = 0
    /\ InitIdle
    /\ InitData(NoRows)

\* data_protection.py:169-177: the record is built, with utcnow
ConsentStamp ==
    \E choice \in ConsentChoices :
        /\ started < MaxRecords
        /\ BagCardinality(pending) < Cardinality(Workers)
        /\ started' = started + 1
        /\ pending' = pending (+) SetToBag({consent_record(choice[1], choice[2],
                                                           choice[3], now)})
        /\ UNCHANGED <<users, user_consents, clockVars, held, resp, audit, wrongRun,
                       issued, wrongDone, okDone, dataVars>>

\* data_protection.py:179-185: the insert, and the value returned
ConsentInsert ==
    \E record \in BagToSet(pending), raised \in BOOLEAN :
        /\ pending' = pending (-) SetToBag({record})
        /\ user_consents' = IF raised THEN user_consents
                            ELSE Append(user_consents, record)
        /\ ret' = [op |-> "record_consent", user_id |-> record.user_id,
                   value |-> ~raised]
        /\ UNCHANGED <<users, clockVars, held, resp, audit, wrongRun, issued, started,
                       wrongDone, okDone, rows, archived_user_data, archived_records,
                       del, sweep, faults>>

\* data_protection.py:187-206
GetUserConsents ==
    \E user_id \in DataUsers, raised \in BOOLEAN :
        \E consents \in get_user_consents(user_consents, user_id, raised) :
            /\ ret' = [op |-> "get_user_consents", user_id |-> user_id,
                       value |-> [returned |-> ~raised, consents |-> consents]]
            /\ UNCHANGED <<authVars, user_consents, audit, rows, archived_user_data,
                           archived_records, del, sweep, faults>>

\* an hour passes
ConsentTick ==
    /\ ticks < MaxTicks
    /\ ticks' = ticks + 1
    /\ now' = now + 1
    /\ UNCHANGED <<storeVars, held, resp, audit, wrongRun, issued, concVars, dataVars>>

NextConsent ==
    \/ ConsentStamp
    \/ ConsentInsert
    \/ GetUserConsents
    \/ ConsentTick

SpecConsent == InitConsent /\ [][NextConsent]_vars

(***************************************************************************)
(* SpecRate: the login requests of one origin (one remote address) within  *)
(* one minute: the clock stands still, started counts the requests made.   *)
(***************************************************************************)
RateRequests ==
    [email : {ConcEmail}, password : {"Str0ng!Passw0rd123", "Wr0ng!Passw0rd123"},
     mfa_token : {NoMfa}]

\* POST /login through its decorators (security.py:73-107)
RateLimitedLogin ==
    \E r \in RateRequests :
      \E ans \in {rate_limit_auth(started,
                                  login_route(users, r.email, r.password, r.mfa_token,
                                              "none", now))} :
        /\ started < MaxAttempts
        /\ started' = started + 1
        /\ users' = ans.users
        /\ resp' = Response("login", r.email, {}, ans)
        /\ audit' = ans.log
        /\ Keep(ans.result.tokens)
        /\ issued' = Issue(ans.result, RolesOf(users, r.email))
        /\ wrongRun' = NextRun(r.email, r.password, ans)
        /\ UNCHANGED <<user_consents, clockVars, pending, wrongDone, okDone, dataVars>>

NextRate == RateLimitedLogin

SpecRate == InitConc /\ [][NextRate]_vars

(***************************************************************************)
(* Properties of concurrent logins and of tokens.                          *)
(***************************************************************************)
\* C2 as claimed: no increment is lost, so once 5 wrong-password logins
\* against the account have completed, with no successful login among the
\* completed requests, the account is locked.
C2_NoLostIncrement ==
    (wrongDone >= LockThreshold /\ okDone = 0) =>
        \A id \in select_by_email(users, ConcEmail) : users[id].account_locked

\* the routes behind the require_auth guard
GuardedOps == {"setup_mfa", "verify_mfa", "disable_mfa", "change_password",
               "update_consent", "request_data_export", "request_data_deletion"}

\* C3 as claimed: no guarded handler runs for a request whose bearer token
\* has the signed type claim "refresh".
C3_RefreshTokenRejected ==
    resp.op \in GuardedOps => \A k \in resp.bearer : k.payload.type # "refresh"

\* what a token must be for refresh_access_token to accept it
ValidRefresh(k, t) ==
    /\ k.wellformed
    /\ k.sig = JWT_SECRET_KEY
    /\ k.payload.exp > t
    /\ k.payload.type = "refresh"

\* C4: of the tokens clients hold (from generate_tokens or from a refresh)
\* and the tokens made without the signing secret, refresh_access_token
\* returns nothing for a token that is expired, wrongly signed, malformed
\* or not of type refresh, and for any other token it returns one access
\* token, signed by the server, for the refresh token's user.
C4_RefreshOnlyFromRefresh ==
    \A k \in held \cup ForgedTokens :
        LET new == refresh_access_token(k, now) IN
        IF ValidRefresh(k, now)
        THEN /\ Cardinality(new) = 1
             /\ \A a \in new : /\ a.payload.type = "access"
                               /\ a.sig = JWT_SECRET_KEY
                               /\ a.payload.user_id = k.payload.user_id
                               /\ a.payload.exp = now + JWT_ACCESS_TOKEN_EXPIRES
        ELSE new = {}

\* C4 witness: after the clock advanced, the refresh route turned down a
\* server-signed, unexpired access token
C4_Witness ==
    /\ resp.op = "refresh_token"
    /\ resp.code = 401
    /\ ticks > 0
    /\ \E k \in resp.bearer : /\ k.wellformed
                              /\ k.sig = JWT_SECRET_KEY
                              /\ k.payload.exp > now
                              /\ k.payload.type = "access"

\* C5 as claimed: refreshing with the refresh token of the last pair
\* issued gives an access token whose roles are the roles the pair was
\* issued for.
C5_RefreshKeepsRoles ==
    \A k \in issued.refresh :
        \A a \in refresh_access_token(k, now) :
            payload_roles(a.payload) = issued.roles

(***************************************************************************)
(* Properties of login and lockout, under Spec.                            *)
(***************************************************************************)
\* the e-mails that have an account, and the account's row
Registered == {e \in Emails : select_by_email(users, e) # {}}
Row(e) == users[CHOOSE id \in select_by_email(users, e) : TRUE]
Locked(e) == e \in Registered /\ Row(e).account_locked

\* the passwords and codes a client can send that the account accepts,
\* and those it does not
RightPasswords(e) == {p \in LoginPasswords : verify_password(p, Row(e).password_hash)}
WrongPasswords(e) == LoginPasswords \ RightPasswords(e)
WrongCodes(e) ==
    {c \in LoginCodes \ {NoMfa} : ~verify_totp(decrypt(Row(e).mfa_secret), c)}

\* the answer a login would get in the current state
LoginNow(e, password, mfa_token, fault) ==
    login_route(users, e, password, mfa_token, fault, now)

\* C1: after 5 wrong-password logins in a row on an account the account is
\* locked, and every login against a locked account, whatever its password
\* and MFA code, is answered "account locked" (or with the system error
\* when the store fails), gets no tokens and leaves the users table as it
\* was, failed_login_attempts included.
C1_LockedAfterFiveWrong ==
    \A e \in Registered :
        /\ wrongRun[e] >= LockThreshold => Locked(e)
        /\ Locked(e) =>
              \A p \in LoginPasswords, c \in LoginCodes, fault \in StoreFaults :
                  LET ans == LoginNow(e, p, c, fault) IN
                  /\ ~ans.result.success
                  /\ ans.result.tokens = {}
                  /\ ans.users = users
                  /\ ans.result.error = IF fault = "none" THEN ErrLocked ELSE ErrAuthSystem

\* C1 witness: the login right after exactly 5 wrong-password logins in a
\* row was not one more wrong password (it carried the account's password)
\* and was answered "account locked"
C1_Witness ==
    /\ resp.op = "login"
    /\ resp.email \in Registered
    /\ wrongRun[resp.email] = LockThreshold
    /\ resp.body.error = ErrLocked
    /\ Row(resp.email).failed_login_attempts = LockThreshold

\* C6 as claimed: in every state a wrong-password login against an existing
\* account gets the same answer as the same login against an e-mail with
\* no account.
C6_NoOracleAnyState ==
    \A e \in Registered, u \in Emails \ Registered :
        \A p \in WrongPasswords(e), c \in LoginCodes, fault \in StoreFaults :
            /\ LoginNow(e, p, c, fault).result = LoginNow(u, p, c, fault).result
            /\ LoginNow(e, p, c, fault).code = LoginNow(u, p, c, fault).code

\* C6 amended: while the account is not locked, a wrong-password login
\* against it gets the same answer (status and body) as the same login
\* against an e-mail with no account.
C6_NoOracleUnlocked ==
    \A e \in Registered, u \in Emails \ Registered :
        ~Locked(e) =>
            \A p \in WrongPasswords(e), c \in LoginCodes, fault \in StoreFaults :
                /\ LoginNow(e, p, c, fault).result = LoginNow(u, p, c, fault).result
                /\ LoginNow(e, p, c, fault).code = LoginNow(u, p, c, fault).code

\* C6 witness: a wrong-password login against an unlocked account was
\* answered "invalid credentials"
C6_Witness ==
    /\ resp.op = "login"
    /\ resp.email \in Registered
    /\ wrongRun[resp.email] \in 1..(LockThreshold - 1)
    /\ ~Locked(resp.email)
    /\ resp.body.error = ErrInvalidCredentials

\* C7: no step clears account_locked, and a login against a locked account
\* never succeeds.
LockKept ==
    \A id \in DOMAIN users :
        users[id].account_locked =>
            /\ id \in DOMAIN users'
            /\ users'[id].account_locked
            /\ (resp'.op = "login" /\ resp'.email = users[id].email) =>
                  (~resp'.body.success /\ resp'.body.tokens = {})

C7_LockIsPermanent == [][LockKept]_vars

\* C7 witness: a locked account's password was changed (with a token from
\* before the lock) and the account is still locked
C7_Witness ==
    /\ resp.op = "change_password"
    /\ resp.code = 200
    /\ \E e \in Registered : Locked(e)

\* C8 as claimed: the answer to the wrong-password login that brings the
\* run to 5 says that the account is locked.
FifthAnswerSaysLocked ==
    \A e \in Emails :
        (wrongRun[e] = LockThreshold - 1 /\ wrongRun'[e] = LockThreshold) =>
            resp'.body.error = ErrLocked

C8_FifthAnswerSaysLocked == [][FifthAnswerSaysLocked]_vars

\* C9: on an unlocked account with MFA enabled, a login with the account's
\* password and a wrong MFA code fails with "invalid MFA token", gets no
\* tokens, leaves the users table as it was and logs an MFA_FAILURE event.
C9_WrongMfaCode ==
    \A e \in Registered :
        (~Locked(e) /\ Row(e).mfa_enabled) =>
            \A p \in RightPasswords(e), c \in WrongCodes(e) :
                LET ans == LoginNow(e, p, c, "none") IN
                /\ ~ans.result.success
                /\ ans.result.error = ErrInvalidMfa
                /\ ~ans.result.requires_mfa
                /\ ans.code = 401
                /\ ans.result.tokens = {}
                /\ ans.users = users
                /\ \E i \in 1..Len(ans.log) : ans.log[i].event = "MFA_FAILURE"

\* C9 witness: a login was answered "invalid MFA token" on an account with
\* failed attempts on its counter
C9_Witness ==
    /\ resp.op = "login"
    /\ resp.body.error = ErrInvalidMfa
    /\ resp.email \in Registered
    /\ Row(resp.email).failed_login_attempts > 0
    /\ audit # <<>>

\* C10: on an unlocked account with MFA enabled, a login with the account's
\* password and no MFA code is answered 202 with requires_mfa (not the 401
\* of a failure), gets no tokens and leaves the users table as it was.
C10_MfaRequired ==
    \A e \in Registered :
        (~Locked(e) /\ Row(e).mfa_enabled) =>
            \A p \in RightPasswords(e) :
                LET ans == LoginNow(e, p, NoMfa, "none") IN
                /\ ans.result.requires_mfa
                /\ ans.code = 202
                /\ ans.result.tokens = {}
                /\ ans.users = users

\* C10 witness: a login was answered "MFA required" on an account that had
\* logged in before and has failed attempts on its counter
C10_Witness ==
    /\ resp.op = "login"
    /\ resp.body.requires_mfa
    /\ resp.code = 202
    /\ resp.email \in Registered
    /\ Row(resp.email).last_login # NoTime
    /\ Row(resp.email).failed_login_attempts > 0

\* the login inputs that are a full success in the current state: the
\* account is not locked, the password is the account's, the MFA code is
\* the current one when MFA is enabled, and the store answers
FullLogin(e, password, mfa_token, fault) ==
    /\ e \in Registered
    /\ ~Locked(e)
    /\ password \in RightPasswords(e)
    /\ Row(e).mfa_enabled => mfa_token = TotpNow(decrypt(Row(e).mfa_secret))
    /\ fault = "none"

\* C11: a full-success login answers 200 with an access and a refresh
\* token, leaves the account with failed_login_attempts = 0 and last_login
\* = now, and emits one AUTH_SUCCESS event; every other login returns no
\* tokens.
C11_SuccessfulLogin ==
    \A e \in Emails, p \in LoginPasswords, c \in LoginCodes, fault \in StoreFaults :
        LET ans == LoginNow(e, p, c, fault) IN
        IF FullLogin(e, p, c, fault)
        THEN /\ ans.result.success
             /\ ans.code = 200
             /\ {k.payload.type : k \in ans.result.tokens} = {"access", "refresh"}
             /\ \A id \in select_by_email(ans.users, e) :
                   /\ ans.users[id].failed_login_attempts = 0
                   /\ ans.users[id].last_login = now
                   /\ ans.users[id].account_locked = FALSE
             /\ ans.log = <<log_auth_attempt(e, TRUE)>>
        ELSE /\ ~ans.result.success
             /\ ans.result.tokens = {}

\* C11 witness: a login with password and MFA code succeeded right after
\* wrong-password logins against the account
C11_Witness ==
    /\ resp.op = "login"
    /\ resp.body.success
    /\ resp.body.tokens # {}
    /\ resp.email \in Registered
    /\ Row(resp.email).mfa_enabled
    /\ Row(resp.email).failed_login_attempts = 0
    /\ Row(resp.email).last_login = now
    /\ audit = <<log_auth_attempt(resp.email, TRUE)>>

\* the operations that change a credential record or the consent log
StateChangingOps == {"register", "login", "change_password", "setup_mfa",
                     "verify_mfa", "disable_mfa", "update_consent"}

\* C12 as claimed: a state-changing operation that answered success
\* emitted exactly one audit event.
C12_ExactlyOneAuditEvent ==
    (resp.op \in StateChangingOps /\ resp.body.success) => Len(audit) = 1

\* the user a bearer token speaks for, when the guard lets it through
Callers == {k \in held \cup {ForgedAccess} : require_auth({}, {k}, now) = 200}

\* the password is the one the stored hash was made from
HashOf(password, row) == password # NoPassword /\ row.password_hash = hash_password(password)

\* C13: change_password and disable_mfa change the users table only when
\* the request's current password is the one stored for the caller; with a
\* missing or wrong current password the table is left as it was and the
\* request is not answered 200.
C13_ReverifyBeforeMutation ==
    \A k \in Callers, fault \in StoreFaults :
        LET uid == current_user({k}).id IN
        /\ \A r \in ChangeRequests :
              LET ans == change_password(users, {k}, r.current_password,
                                         r.new_password, fault, now) IN
              (uid \notin DOMAIN users \/ ~HashOf(r.current_password, users[uid])) =>
                  (ans.users = users /\ ans.code # 200)
        /\ \A p \in LoginPasswords \cup {NoPassword} :
              LET ans == disable_mfa(users, {k}, p, fault, now) IN
              (uid \notin DOMAIN users \/ ~HashOf(p, users[uid])) =>
                  (ans.users = users /\ ans.code # 200)

\* C13 witness: change_password, called with a valid token and a wrong
\* current password by a user with MFA enabled, was answered 401
C13_Witness ==
    /\ resp.op = "change_password"
    /\ resp.code = 401
    /\ resp.body.error = "Current password is incorrect"
    /\ \E k \in resp.bearer : /\ k.payload.user_id \in DOMAIN users
                              /\ users[k.payload.user_id].mfa_enabled

\* C14: a register_user that fails leaves the users table as it was, and
\* when the insert raises or returns no row the error it reports is not
\* the error of a password that fails validation.
C14_FailedRegister ==
    \A e \in Emails, p \in RegisterPasswords, secret \in Secrets,
       fault \in {"none", "insert", "nodata"} :
        LET out == register_user(users, e, p, secret, fault) IN
        /\ ~out.result.success => out.users = users
        /\ (~out.result.success /\ validate_password_strength(p).valid) =>
              out.result.error # ErrWeakPassword
        /\ ~validate_password_strength(p).valid =>
              (~out.result.success /\ out.result.error = ErrWeakPassword)

\* C14 witness: a registration with a valid password failed in the store
\* with the table empty, and the table is still empty
C14_Witness ==
    /\ resp.op = "register"
    /\ resp.body.error \in {ErrCreateFailed, ErrRegisterSystem}
    /\ users = NoTable

(***************************************************************************)
(* Properties of delete_user_data and export_user_data, under SpecDel.     *)
(***************************************************************************)
\* the rows of a user in a table, in the current store
RowsOf(table, user_id) == select_user(Db(rows, user_consents), table, user_id)

\* the tables whose rows hang off the user's user_profiles row
DependentTables == Range(tables_to_delete) \ {"user_profiles"}

\* C15 as claimed: at every point of delete_user_data, a user whose
\* user_profiles rows are gone has no row left in any dependent table.
C15_NoOrphanedRoot ==
    \A u \in DataUsers :
        RowsOf("user_profiles", u) = {} =>
            \A table \in DependentTables : RowsOf(table, u) = {}

\* a step of delete_user_data that removes rows of the user
Purges ==
    /\ del.pc = "delete"
    /\ \E table \in Range(tables_to_delete) :
          select_user(Db(rows', user_consents'), table, del.user_id)
              # RowsOf(table, del.user_id)

\* C16 as claimed: when archive_first is true, a step of delete_user_data
\* removes rows of the user only if the archive holds a snapshot of the
\* user.
ArchivedBeforePurge ==
    (Purges /\ del.archive_first) =>
        \E a \in BagToSet(archived_user_data) : a.user_id = del.user_id

C16_ArchiveBeforePurge == [][ArchivedBeforePurge]_vars

\* C17 as claimed: an export_user_data for a user made after a
\* delete_user_data for that user returned holds no row in any table.
C17_ExportEmptyAfterDelete ==
    (ret.op = "export_user_data" /\ ret.user_id \in del.returned) =>
        \A table \in Range(tables_to_export) : ret.value.data[table] = {}

(***************************************************************************)
(* Properties of apply_retention_policies, under SpecSweep.                *)
(***************************************************************************)
SweepIdle == \A w \in Workers : sweep[w].pc = "idle"

\* C18 as claimed: with the runs one after the other (one worker), the
\* archive never holds two entries for one record, whatever store calls
\* failed.
C18_NoDoubleArchive ==
    sweep["w2"].runs = 0 =>
        \A e \in BagToSet(archived_records) : CopiesIn(e, archived_records) <= 1

\* C19 as claimed: when runs that overlapped have all returned, with no
\* store call having raised, the tables and the archive are as one run on
\* its own leaves them.
C19_OverlapAsSingleRun ==
    (SweepIdle /\ SweepRuns >= 1 /\ faults = 0) =>
        [rows |-> rows, archived_records |-> archived_records]
            = apply_retention_policies(DataRows, EmptyBag, now)

\* a run returned that no other run overlapped and in which no store call
\* raised
SweptClean == ret.op = "apply_retention_policies" /\ ret.value

\* C20: after a run on its own with no store failure has returned, the
\* steps of a further run (the clock at the same hour, no other writer)
\* change neither the governed tables nor the archive.
C20_SecondRunChangesNothing ==
    [][SweptClean => (rows' = rows /\ archived_records' = archived_records)]_vars

\* C20 witness: two runs, one after the other and with no store failure,
\* have returned, and the first one had records to archive and delete
C20_Witness ==
    /\ SweepIdle
    /\ SweepRuns >= 2
    /\ faults = 0
    /\ SweptClean
    /\ archived_records # EmptyBag
    /\ rows # DataRows
    /\ [rows |-> rows, archived_records |-> archived_records]
          = apply_retention_policies(DataRows, EmptyBag, now)

\* C21 as claimed: whatever store calls fail, a record the sweep deletes
\* is older than its category's cutoff, its category has auto_delete, and
\* when the category's policy has archive_before_delete an archive entry
\* for the record is in archived_records before the delete.
C21_ArchivedBeforeSweepDelete ==
    [][\A w \in Workers :
          (sweep[w].pc = "delete" /\ sweep'[w] # sweep[w] /\ rows' # rows) =>
              LET data_type == policy_order[sweep[w].cat]
                  record == sweep[w].cur IN
              /\ retention_policies[data_type].auto_delete
              /\ record.created_at < cutoff_date(data_type, now)
              /\ retention_policies[data_type].archive_before_delete =>
                    BagIn(archive_record(data_type, record), archived_records)]_vars

\* the part of C21 about which records go: only records older than the
\* cutoff, only in categories with auto_delete (audit_logs keeps its rows)
C21_OnlyExpiredOnlyAutoDelete ==
    /\ rows["audit_logs"] = DataRows["audit_logs"]
    /\ \A table \in RowTables :
          \A r \in DataRows[table] \ rows[table] :
              /\ table \in swept_types
              /\ r.created_at < cutoff_date(table, now)

\* C22: a run of apply_retention_policies that has returned has issued
\* the select of every category with auto_delete, whatever store calls
\* raised on the way.
C22_FailureDoesNotAbortSweep ==
    \A w \in Workers :
        (sweep[w].pc = "idle" /\ sweep[w].runs > 0) => sweep[w].visited = swept_types

\* a run returned after a store call raised in ai_interactions (a record
\* past its cutoff is still there) and has swept user_sessions, the
\* category after it
C22_Witness ==
    /\ \E w \in Workers :
          sweep[w].pc = "idle" /\ sweep[w].runs = 1 /\ sweep[w].visited = swept_types
    /\ SweepRuns = 1
    /\ faults > 0
    /\ select_older(rows, "ai_interactions", now) # {}
    /\ select_older(rows, "journal_entries", now) = {}
    /\ select_older(rows, "user_sessions", now) = {}
    /\ select_older(DataRows, "user_sessions", now) # {}
\* C23: a get_user_consents call whose select returned gives one entry for
\* each consent category the user has records for and no other, and the
\* entry is the granted value of a record of that (user, category) pair
\* that no other record of the pair exceeds in timestamp, wherever the
\* record stands in the order of insertion.
C23_LatestByTimestamp ==
    (ret.op = "get_user_consents" /\ ret.value.returned) =>
        LET mine == {i \in DOMAIN user_consents :
                        user_consents[i].user_id = ret.user_id} IN
        /\ DOMAIN ret.value.consents = {user_consents[i].consent_type : i \in mine}
        /\ \A c \in DOMAIN ret.value.consents :
              \E i \in mine :
                  /\ user_consents[i].consent_type = c
                  /\ user_consents[i].granted = ret.value.consents[c]
                  /\ \A j \in mine :
                        user_consents[j].consent_type = c =>
                            user_consents[j].timestamp <= user_consents[i].timestamp

\* the records (A, true, t1), (A, false, t3), (A, true, t2) of one user,
\* inserted in this order with t1 < t2 < t3, and the call answered A = false
C23_Witness ==
    /\ ret.op = "get_user_consents"
    /\ ret.value.returned
    /\ Len(user_consents) = 3
    /\ \A i \in 1..3 : /\ user_consents[i].user_id = ret.user_id
                        /\ user_consents[i].consent_type = "analytics"
    /\ user_consents[1].granted /\ ~user_consents[2].granted /\ user_consents[3].granted
    /\ user_consents[1].timestamp < user_consents[3].timestamp
    /\ user_consents[3].timestamp < user_consents[2].timestamp
    /\ ret.value.consents = ("analytics" :> FALSE)
\* C24 as claimed: every export_user_data call returns a bundle that holds
\* the user's rows of every governed table and the export timestamp, and
\* writes an audit record of the export whose classification is
\* 'confidential'.
C24_ExportCompleteAndConfidential ==
    [][(ret' # ret /\ ret'.op = "export_user_data") =>
          /\ ret'.value # ExportFailed
          /\ ret'.value.user_id = ret'.user_id
          /\ ret'.value.export_timestamp = now
          /\ \A table \in Range(tables_to_export) :
                ret'.value.data[table] =
                    select_user(Db(rows, user_consents), table, ret'.user_id)
          /\ \E i \in DOMAIN audit' :
                /\ audit'[i].sink = "audit_logs"
                /\ audit'[i].event = "export"
                /\ audit'[i].classification = "confidential"]_vars

\* the bundle half of C24 when no select raises
C24_BundleWhenSelectsReturn ==
    \A user_id \in DataUsers :
        LET export == export_user_data(Db(rows, user_consents), user_id, {}, now) IN
        /\ export.export_timestamp = now
        /\ \A table \in Range(tables_to_export) :
              export.data[table] = select_user(Db(rows, user_consents), table, user_id)

\* the classification the export's audit record carries
C24_ExportAuditConfidential ==
    log_data_access("u1", "all_data", "export").classification = "confidential"

C26_OverLimitRejected ==
    [][started' > RATE_LIMIT_AUTH => (resp'.code = 429 /\ users' = users)]_vars
\* C27 as claimed: in every interleaving of concurrent logins for one
\* account, a login that completes when the store already holds
\* account_locked = true for the account is not answered with tokens.
C27_NoTokensAfterLock ==
    [][((\A id \in select_by_email(users, ConcEmail) : users[id].account_locked)
          /\ started' = started /\ pending' # pending)
        => (resp'.code # 200 /\ held' \subseteq held)]_vars

\* C28: in every interleaving of logins, the stored failed_login_attempts
\* of every account is within 0..5, and no state holds the value 5 with
\* account_locked false (the update that writes 5 sets the lock).
C28_CounterWithinThreshold ==
    \A id \in DOMAIN users :
        /\ users[id].failed_login_attempts \in 0..LockThreshold
        /\ users[id].failed_login_attempts = LockThreshold => users[id].account_locked

\* the fifth failed login was written while another request, which had
\* read the row before, was still in flight, and that request has
\* completed since
C28_Witness ==
    /\ \E id \in select_by_email(users, ConcEmail) :
          /\ users[id].failed_login_attempts = LockThreshold
          /\ users[id].account_locked
    /\ wrongDone > LockThreshold
\* the handlers that check the current password or an MFA code before
\* they write
ReverifyingOps == {"verify_mfa", "disable_mfa", "change_password"}

\* C29 as claimed: while an account's mfa_enabled is true, its stored
\* mfa_secret changes only in a step of a handler that re-verifies the
\* current password or an MFA code; a setup_mfa request that carries only
\* an access token does not replace it.
C29_SecretKeptWhileEnabled ==
    [][\A id \in DOMAIN users :
          (/\ users[id].mfa_enabled
           /\ id \in DOMAIN users'
           /\ users'[id].mfa_secret # users[id].mfa_secret)
          => resp'.op \in ReverifyingOps]_vars
\* C30 as claimed: when delete_user_data returns True, none of the tables
\* it purges holds a row of the user (so a call in which the delete on
\* some table failed does not return True).
C30_TrueOnlyWhenPurged ==
    [][(del.pc = "log" /\ del'.pc = "idle" /\ ret'.value = TRUE) =>
          \A table \in Range(tables_to_delete) :
              select_user(Db(rows, user_consents), table, del.user_id) = {}]_vars
====
